---- MODULE Spec2Model ----
(***************************************************************************)
(* WageWise: the recurring payday calculator of context/wageTracker.tsx    *)
(* (computeNextPayDateForSchedule and its helpers) and the provider of the *)
(* same file that keeps the employers, their pay history and the storage.  *)
(*                                                                         *)
(* A JavaScript Date is an instant.  The model counts instants in whole    *)
(* seconds since 1970-01-01T00:00:00Z (TLC's integers are 32 bits wide, so *)
(* epoch milliseconds do not fit).  setHours(h, m, 0, 0) zeroes seconds    *)
(* and milliseconds together, so the seconds of a reference stand for its  *)
(* whole sub-minute part.                                                  *)
(*                                                                         *)
(* An optional value (a field that may be undefined, a Schedule | null, a  *)
(* Date | null) is a sequence of length at most one: <<>> is the absent    *)
(* value and <<v>> the present value v.                                    *)
(***************************************************************************)
EXTENDS Integers, Sequences, FiniteSets, TLC

VARIABLES
    tz,        \* the local time zone of the JavaScript runtime
    now,       \* the reading of the system clock (what new Date() gives)
    schedule,  \* the Schedule | null argument
    from,      \* the reference Date argument
    result,    \* the Date | null returned
    pc,        \* "ready" before the call, "done" after it
    callLog    \* the calls so far: reference passed, clock reading, result

\* the provider (WageTrackerProvider)
VARIABLES
    employers,     \* state.employers
    loading,       \* the loading flag
    hydratedRef,   \* hydratedRef.current
    hydrate,       \* the position of the hydrate effect's async function
    initial,       \* what readFromStorage has built so far
    storageV2,     \* the item under STORAGE_KEY_V2
    storageV3,     \* the item under STORAGE_KEY_V3
    writes,        \* the AsyncStorage.setItem calls of writeToStorage in flight
    nextPayDates,  \* the memoized nextPayDates
    ops,           \* the number of store operations called so far
    writeRejected  \* whether a call of AsyncStorage.setItem has been rejected

\* the notification service (NotificationService)
VARIABLES
    reminders      \* the calls of schedulePaydayReminder so far: the arguments,
                   \* the clock reading, and the date handed to
                   \* PushNotification.localNotificationSchedule, if it was called

calcVars == <<schedule, from, result, pc, callLog>>

providerVars == <<employers, loading, hydratedRef, hydrate, initial,
                  storageV2, storageV3, writes, nextPayDates, ops, writeRejected>>

reminderVars == <<reminders>>

vars == <<tz, now, calcVars, providerVars, reminderVars>>

(***************************************************************************)
(* Optional values.                                                        *)
(***************************************************************************)
None == <<>>

Some(v) == <<v>>

\* x ?? d, and a default parameter value (hour = 9)
OrElse(x, d) == IF x = None THEN d ELSE x[1]

(***************************************************************************)
(* Bounds of the model.                                                    *)
(***************************************************************************)
\* reference instants are drawn from the years FirstYear .. FirstYear + NumYears - 1
FirstYear == 2023

NumYears == 2

(***************************************************************************)
(* The proleptic Gregorian calendar behind Date (ECMAScript MakeDay,       *)
(* YearFromTime, MonthFromTime, DateFromTime, WeekDay).                    *)
(***************************************************************************)
SecPerMin == 60

SecPerHour == 3600

SecPerDay == 86400

\* day number (days since 1970-01-01) of year y, month m (1..12), day d
DaysFromCivil(y, m, d) ==
    LET yy  == IF m <= 2 THEN y - 1 ELSE y
        era == yy \div 400
        yoe == yy - era * 400
        mp  == IF m > 2 THEN m - 3 ELSE m + 9
        doy == (153 * mp + 2) \div 5 + d - 1
        doe == yoe * 365 + yoe \div 4 - yoe \div 100 + doy
    IN  era * 146097 + doe - 719468

\* the calendar date [year, month (0..11), date (1..31)] of day number z
\* (computed in steps: the 400-year era, the day doe and the year yoe of the
\* era, the day doy of the year counted from March 1, the month mp counted
\* from March)
CivilOfMonth(era, yoe, doy, mp) ==
    [year  |-> yoe + era * 400 + (IF mp < 10 THEN 0 ELSE 1),
     month |-> (IF mp < 10 THEN mp + 3 ELSE mp - 9) - 1,
     date  |-> doy - (153 * mp + 2) \div 5 + 1]

CivilOfDayOfYear(era, yoe, doy) == CivilOfMonth(era, yoe, doy, (5 * doy + 2) \div 153)

CivilOfYearOfEra(era, doe, yoe) ==
    CivilOfDayOfYear(era, yoe, doe - (365 * yoe + yoe \div 4 - yoe \div 100))

CivilOfDayOfEra(era, doe) ==
    CivilOfYearOfEra(era, doe,
        (doe - doe \div 1460 + doe \div 36524 - doe \div 146096) \div 365)

CivilOfEra(zz, era) == CivilOfDayOfEra(era, zz - era * 146097)

\* (a function of the day number: the day number is a value, as the time
\* value of a Date is, before its calendar date is worked out)
CivilOfDay == [z \in Int |-> CivilOfEra(z + 719468, (z + 719468) \div 146097)]

CivilFromDays(z) == CivilOfDay[z]

\* MakeDay(year, month, date): the month index may run past 11 and the date
\* below 1 or past the month's end; both carry over
MakeDay(year, monthZero, date) ==
    DaysFromCivil(year + monthZero \div 12, (monthZero % 12) + 1, 1) + date - 1

\* WeekDay: 0 = Sunday .. 6 = Saturday (1970-01-01 was a Thursday)
WeekDayOfDay(day) == (day + 4) % 7

(***************************************************************************)
(* The local time zone.  "UTC" has no offset; "Europe/London" is on UTC in *)
(* winter and one hour ahead from the last Sunday of March, 01:00 UTC, to  *)
(* the last Sunday of October, 01:00 UTC.                                  *)
(***************************************************************************)
TimeZones == {"UTC", "Europe/London"}

\* the Sunday on or before day
SundayUpTo(day) == day - WeekDayOfDay(day)

LastSundayOf(year, month) == SundayUpTo(MakeDay(year, month, 0))

DstStart(year) == LastSundayOf(year, 3) * SecPerDay + SecPerHour

DstEnd(year) == LastSundayOf(year, 10) * SecPerDay + SecPerHour

\* LocalTZA(t, true): the offset of local time from UTC at the instant t
InSummerTimeOf(t, y) == t >= DstStart(y) /\ t < DstEnd(y)

LocalTZA(t) ==
    IF tz = "UTC" THEN 0
    ELSE IF InSummerTimeOf(t, CivilFromDays(t \div SecPerDay).year)
         THEN SecPerHour
         ELSE 0

\* LocalTime(t)
LocalTime(t) == t + LocalTZA(t)

\* UTC(local): a local time that a transition skips or repeats is read with
\* the offset in force before the transition
UTC(local) == local - LocalTZA(local - SecPerHour)

(***************************************************************************)
(* Date: the constructors and accessors the calculator uses.               *)
(***************************************************************************)
LocalFields(t) == CivilFromDays(LocalTime(t) \div SecPerDay)

getFullYear(t) == LocalFields(t).year

getMonth(t) == LocalFields(t).month

getDate(t) == LocalFields(t).date

getDay(t) == WeekDayOfDay(LocalTime(t) \div SecPerDay)

\* seconds since local midnight
TimeWithinDay(t) == LocalTime(t) % SecPerDay

getHours(t) == TimeWithinDay(t) \div SecPerHour

getMinutes(t) == (TimeWithinDay(t) % SecPerHour) \div SecPerMin

getSeconds(t) == TimeWithinDay(t) % SecPerMin

\* new Date(year, monthZero, date): local midnight of that day
NewDate(year, monthZero, date) == UTC(MakeDay(year, monthZero, date) * SecPerDay)

\* d.setHours(hour, minute, 0, 0)
setHours(t, hour, minute) ==
    UTC((LocalTime(t) \div SecPerDay) * SecPerDay + hour * SecPerHour + minute * SecPerMin)

\* d.setDate(date): the local time of day is kept
setDate(t, date) ==
    UTC(TimeWithinDay(t) + MakeDay(getFullYear(t), getMonth(t), date) * SecPerDay)

(***************************************************************************)
(* context/wageTracker.tsx                                                 *)
(***************************************************************************)
DOW == <<"sunday", "monday", "tuesday", "wednesday", "thursday", "friday", "saturday">>

\* DOW.indexOf(d): the 0-based index, -1 when d is no weekday name
dayNameToIndex(d) ==
    IF \E i \in 1..Len(DOW) : DOW[i] = d
    THEN (CHOOSE i \in 1..Len(DOW) : DOW[i] = d) - 1
    ELSE -1

Max(a, b) == IF a >= b THEN a ELSE b

Min(a, b) == IF a <= b THEN a ELSE b

\* clampDayOfMonth reading the length of the month before the one asked for
clampDayOfMonth_prevMonth(year, monthZero, dom) ==
    LET lastDay == getDate(NewDate(year, monthZero, 0))
    IN  Max(1, Min(lastDay, dom))

clampDayOfMonth(year, monthZero, dom) ==
    LET lastDay == getDate(NewDate(year, monthZero + 1, 0))
    IN  Max(1, Min(lastDay, dom))

\* atTime defaulting the hour to midnight
atTime_midnightDefault(date, hour, minute) ==
    setHours(date, OrElse(hour, 0), OrElse(minute, 0))

\* hour and minute are optional: the parameters default to 9 and 0
atTime(date, hour, minute) == setHours(date, OrElse(hour, 9), OrElse(minute, 0))

\* atTime calling setHours on the Date it was given
atTime_date_inPlace(date, hour, minute) ==
    setHours(date, OrElse(hour, 9), OrElse(minute, 0))

\* the instant of the argument object after atTime returns: the function
\* copies it (const d = new Date(date)) and calls setHours on the copy
atTime_date(date, hour, minute) == date

addDays(date, n) == setDate(date, getDate(date) + n)

\* the instant of the argument object after addDays returns: setDate is
\* called on a copy as well
addDays_date(date, n) == date

\* nextWeekly adding a week only when the target weekday is behind (delta < 0)
nextWeekly_sameDay(fromDate, weekday, hour, minute) ==
    LET base      == atTime(fromDate, hour, minute)
        targetIdx == dayNameToIndex(weekday)
        todayIdx  == getDay(base)
        delta0    == targetIdx - todayIdx
        delta     == IF delta0 < 0 THEN delta0 + 7 ELSE delta0
    IN  atTime(addDays(base, delta), hour, minute)

nextWeekly(fromDate, weekday, hour, minute) ==
    LET base      == atTime(fromDate, hour, minute)
        targetIdx == dayNameToIndex(weekday)
        todayIdx  == getDay(base)
        delta0    == targetIdx - todayIdx
        delta     == IF delta0 <= 0 THEN delta0 + 7 ELSE delta0
    IN  atTime(addDays(base, delta), hour, minute)

\* the reference object after nextWeekly returns: it is handed to atTime only;
\* base is a Date of its own, and so is what addDays makes of it
nextWeekly_from(fromDate, weekday, hour, minute) == atTime_date(fromDate, hour, minute)

\* nextMonthly keeping a candidate that equals the time-adjusted reference (>=)
nextMonthly_notStrict(fromDate, dom, hour, minute) ==
    LET base      == atTime(fromDate, hour, minute)
        safeDom   == clampDayOfMonth(getFullYear(base), getMonth(base), dom)
        candidate == atTime(NewDate(getFullYear(base), getMonth(base), safeDom),
                            hour, minute)
        nextMonthDom == clampDayOfMonth(getFullYear(base), getMonth(base) + 1, dom)
    IN  IF candidate >= base
        THEN candidate
        ELSE atTime(NewDate(getFullYear(base), getMonth(base) + 1, nextMonthDom),
                    hour, minute)

\* nextMonthly comparing the candidate with the reference as passed in
nextMonthly_rawReference(fromDate, dom, hour, minute) ==
    LET base      == atTime(fromDate, hour, minute)
        safeDom   == clampDayOfMonth(getFullYear(base), getMonth(base), dom)
        candidate == atTime(NewDate(getFullYear(base), getMonth(base), safeDom),
                            hour, minute)
        nextMonthDom == clampDayOfMonth(getFullYear(base), getMonth(base) + 1, dom)
    IN  IF candidate > fromDate
        THEN candidate
        ELSE atTime(NewDate(getFullYear(base), getMonth(base) + 1, nextMonthDom),
                    hour, minute)

\* nextMonthly taking the day of the next month as configured, unclamped
nextMonthly_unclampedNextMonth(fromDate, dom, hour, minute) ==
    LET base      == atTime(fromDate, hour, minute)
        safeDom   == clampDayOfMonth(getFullYear(base), getMonth(base), dom)
        candidate == atTime(NewDate(getFullYear(base), getMonth(base), safeDom),
                            hour, minute)
    IN  IF candidate > base
        THEN candidate
        ELSE atTime(NewDate(getFullYear(base), getMonth(base) + 1, dom),
                    hour, minute)

nextMonthly(fromDate, dom, hour, minute) ==
    LET base      == atTime(fromDate, hour, minute)
        safeDom   == clampDayOfMonth(getFullYear(base), getMonth(base), dom)
        candidate == atTime(NewDate(getFullYear(base), getMonth(base), safeDom),
                            hour, minute)
        nextMonthDom == clampDayOfMonth(getFullYear(base), getMonth(base) + 1, dom)
    IN  IF candidate > base
        THEN candidate
        ELSE atTime(NewDate(getFullYear(base), getMonth(base) + 1, nextMonthDom),
                    hour, minute)

\* the reference object after nextMonthly returns: handed to atTime only
nextMonthly_from(fromDate, dom, hour, minute) == atTime_date(fromDate, hour, minute)

\* 14 days, in the model's unit of time (the source's 14 * 24 * 60 * 60 * 1000 ms)
MS_14D == 14 * 24 * 60 * 60

\* Math.ceil(a / b) for a >= 0, b > 0
CeilDiv(a, b) == (a + b - 1) \div b

\* nextBiweekly stepping strictly past the reference (floor + 1 for ceil)
nextBiweekly_strictlyAfter(fromDate, sched) ==
    LET hour   == Some(OrElse(sched.hour, 9))
        minute == Some(OrElse(sched.minute, 0))
    IN  IF sched.biweeklyAnchorDate # None /\ sched.biweeklyAnchorDate[1] > 0
        THEN LET anchor == atTime(sched.biweeklyAnchorDate[1], hour, minute)
                 base   == atTime(fromDate, hour, minute)
                 diff   == base - anchor
                 k      == diff \div MS_14D + 1
             IN  IF base <= anchor THEN anchor ELSE anchor + k * MS_14D
        ELSE nextWeekly(fromDate, OrElse(sched.dayOfWeek, "friday"), hour, minute)

\* nextBiweekly rounding the number of periods down (floor for ceil)
nextBiweekly_floor(fromDate, sched) ==
    LET hour   == Some(OrElse(sched.hour, 9))
        minute == Some(OrElse(sched.minute, 0))
    IN  IF sched.biweeklyAnchorDate # None /\ sched.biweeklyAnchorDate[1] > 0
        THEN LET anchor == atTime(sched.biweeklyAnchorDate[1], hour, minute)
                 base   == atTime(fromDate, hour, minute)
                 diff   == base - anchor
                 k      == diff \div MS_14D
             IN  IF base <= anchor THEN anchor ELSE anchor + k * MS_14D
        ELSE nextWeekly(fromDate, OrElse(sched.dayOfWeek, "friday"), hour, minute)

\* nextBiweekly without the early return for a reference at or before the anchor
nextBiweekly_noEarlyReturn(fromDate, sched) ==
    LET hour   == Some(OrElse(sched.hour, 9))
        minute == Some(OrElse(sched.minute, 0))
    IN  IF sched.biweeklyAnchorDate # None /\ sched.biweeklyAnchorDate[1] > 0
        THEN LET anchor == atTime(sched.biweeklyAnchorDate[1], hour, minute)
                 base   == atTime(fromDate, hour, minute)
                 diff   == base - anchor
                 k      == CeilDiv(diff, MS_14D)
             IN  anchor + k * MS_14D
        ELSE nextWeekly(fromDate, OrElse(sched.dayOfWeek, "friday"), hour, minute)

\* nextBiweekly taking every present anchor, also zero and negative ones
nextBiweekly_anyAnchor(fromDate, sched) ==
    LET hour   == Some(OrElse(sched.hour, 9))
        minute == Some(OrElse(sched.minute, 0))
    IN  IF sched.biweeklyAnchorDate # None
        THEN LET anchor == atTime(sched.biweeklyAnchorDate[1], hour, minute)
                 base   == atTime(fromDate, hour, minute)
                 diff   == base - anchor
                 k      == CeilDiv(diff, MS_14D)
             IN  IF base <= anchor THEN anchor ELSE anchor + k * MS_14D
        ELSE nextWeekly(fromDate, OrElse(sched.dayOfWeek, "friday"), hour, minute)

nextBiweekly(fromDate, sched) ==
    LET hour   == Some(OrElse(sched.hour, 9))
        minute == Some(OrElse(sched.minute, 0))
    IN  IF sched.biweeklyAnchorDate # None /\ sched.biweeklyAnchorDate[1] > 0
        THEN LET anchor == atTime(sched.biweeklyAnchorDate[1], hour, minute)
                 base   == atTime(fromDate, hour, minute)
                 diff   == base - anchor
                 k      == CeilDiv(diff, MS_14D)
             IN  IF base <= anchor THEN anchor ELSE anchor + k * MS_14D
        ELSE nextWeekly(fromDate, OrElse(sched.dayOfWeek, "friday"), hour, minute)

\* the reference object after nextBiweekly returns: handed to atTime in the
\* anchored branch and to nextWeekly in the other
nextBiweekly_from(fromDate, sched) ==
    LET hour   == Some(OrElse(sched.hour, 9))
        minute == Some(OrElse(sched.minute, 0))
    IN  IF sched.biweeklyAnchorDate # None /\ sched.biweeklyAnchorDate[1] > 0
        THEN atTime_date(fromDate, hour, minute)
        ELSE nextWeekly_from(fromDate, OrElse(sched.dayOfWeek, "friday"), hour, minute)

\* computeNextPayDateForSchedule computing a weekly default for a null schedule
computeNextPayDateForSchedule_nullAsDefault(sched, fromDate) ==
    IF sched = None THEN Some(nextWeekly(fromDate, "friday", None, None))
    ELSE LET s == sched[1]
         IN  IF s.payFrequency = "monthly"
             THEN Some(nextMonthly(fromDate, OrElse(s.dayOfMonth, 1), s.hour, s.minute))
             ELSE IF s.payFrequency = "weekly"
             THEN Some(nextWeekly(fromDate, OrElse(s.dayOfWeek, "friday"), s.hour, s.minute))
             ELSE Some(nextBiweekly(fromDate, s))

\* computeNextPayDateForSchedule taking the anchored branch whenever an anchor is set
computeNextPayDateForSchedule_anchorFirst(sched, fromDate) ==
    IF sched = None THEN None
    ELSE LET s == sched[1]
         IN  IF s.biweeklyAnchorDate # None /\ s.biweeklyAnchorDate[1] > 0
             THEN Some(nextBiweekly(fromDate, s))
             ELSE IF s.payFrequency = "monthly"
             THEN Some(nextMonthly(fromDate, OrElse(s.dayOfMonth, 1), s.hour, s.minute))
             ELSE IF s.payFrequency = "weekly"
             THEN Some(nextWeekly(fromDate, OrElse(s.dayOfWeek, "friday"), s.hour, s.minute))
             ELSE Some(nextBiweekly(fromDate, s))

\* schedule: Schedule | null; the result: Date | null
computeNextPayDateForSchedule(sched, fromDate) ==
    IF sched = None THEN None
    ELSE LET s == sched[1]
         IN  IF s.payFrequency = "monthly"
             THEN Some(nextMonthly(fromDate, OrElse(s.dayOfMonth, 1), s.hour, s.minute))
             ELSE IF s.payFrequency = "weekly"
             THEN Some(nextWeekly(fromDate, OrElse(s.dayOfWeek, "friday"), s.hour, s.minute))
             ELSE Some(nextBiweekly(fromDate, s))

\* the reference object after computeNextPayDateForSchedule returns
computeNextPayDateForSchedule_from(sched, fromDate) ==
    IF sched = None THEN fromDate
    ELSE LET s == sched[1]
         IN  IF s.payFrequency = "monthly"
             THEN nextMonthly_from(fromDate, OrElse(s.dayOfMonth, 1), s.hour, s.minute)
             ELSE IF s.payFrequency = "weekly"
             THEN nextWeekly_from(fromDate, OrElse(s.dayOfWeek, "friday"), s.hour, s.minute)
             ELSE nextBiweekly_from(fromDate, s)

\* the schedule object after computeNextPayDateForSchedule returns: its
\* fields are read (schedule.payFrequency, schedule.hour, ...), none is assigned
computeNextPayDateForSchedule_schedule(sched, fromDate) == sched

(***************************************************************************)
(* The inputs of a call.                                                   *)
(***************************************************************************)
\* a local wall-clock time as an instant
At(year, monthZero, date, hour, minute, second) ==
    UTC(MakeDay(year, monthZero, date) * SecPerDay
        + hour * SecPerHour + minute * SecPerMin + second)

RefYears == FirstYear .. (FirstYear + NumYears - 1)

RefDates == {1, 15, 20, 28, 29, 30, 31}

\* [hour, minute, second] of the reference
RefTimes == {<<0, 0, 0>>, <<9, 0, 0>>, <<9, 0, 30>>, <<23, 59, 59>>}

DaysInMonth(year, monthZero) == MakeDay(year, monthZero + 1, 0) - MakeDay(year, monthZero, 0)

ScheduleTimes ==
    { [hour |-> None, minute |-> None],
      [hour |-> Some(17), minute |-> Some(30)],
      [hour |-> Some(1), minute |-> Some(30)] }

WeekdayNames == {DOW[i] : i \in 1..Len(DOW)}

MkSchedule(freq, dow, dom, anchor, time) ==
    [payFrequency |-> freq, dayOfWeek |-> dow, dayOfMonth |-> dom,
     biweeklyAnchorDate |-> anchor, hour |-> time.hour, minute |-> time.minute]

\* a dayOfWeek string that is none of the seven names (the stored value is not validated)
InvalidDayName == "funday"

WeeklySchedules ==
    { MkSchedule("weekly", dow, None, None, time) :
        dow \in {None, Some(InvalidDayName)} \cup {Some(n) : n \in WeekdayNames},
        time \in ScheduleTimes }

MonthlySchedules ==
    { MkSchedule("monthly", None, dom, None, time) :
        dom \in {None} \cup {Some(n) : n \in {-3, 0, 1, 15, 29, 30, 31}},
        time \in ScheduleTimes }

\* biweeklyAnchorDate values that are present and positive
Anchors ==
    { At(FirstYear, 5, 1, 9, 0, 0),
      At(FirstYear + 1, 2, 20, 9, 0, 0),
      At(FirstYear + 1, 5, 1, 14, 20, 10) }

\* biweekly with no usable anchor: absent, zero or negative
UnanchoredSchedules ==
    { MkSchedule("biweekly", dow, None, anchor, time) :
        dow \in {None, Some("sunday"), Some("monday"), Some("friday")},
        anchor \in {None, Some(0), Some(-1)},
        time \in ScheduleTimes }

AnchoredSchedules ==
    { MkSchedule("biweekly", None, None, Some(a), time) :
        a \in Anchors, time \in ScheduleTimes }

Schedules ==
    WeeklySchedules \cup MonthlySchedules \cup UnanchoredSchedules \cup AnchoredSchedules

\* the reference instants of year y, month m (0..11)
ReferencesIn(y, m) ==
    { At(y, m, d, t[1], t[2], t[3]) :
        d \in {x \in RefDates : x <= DaysInMonth(y, m)}, t \in RefTimes }

References == UNION { ReferencesIn(y, m) : y \in RefYears, m \in 0..11 }

(***************************************************************************)
(* The call computeNextPayDateForSchedule(schedule, from) as a state       *)
(* machine: the arguments are chosen, then the function is applied once.   *)
(***************************************************************************)
\* no provider is mounted
NoProvider ==
    /\ employers = <<>>
    /\ loading = TRUE
    /\ hydratedRef = FALSE
    /\ hydrate = "start"
    /\ initial = None
    /\ storageV2 = None
    /\ storageV3 = None
    /\ writes = <<>>
    /\ nextPayDates = <<>>
    /\ ops = 0
    /\ writeRejected = FALSE

\* no reminder has been asked for
NoReminders == reminders = <<>>

Init ==
    /\ tz \in TimeZones
    /\ schedule \in {None} \cup {Some(s) : s \in Schedules}
    /\ from \in References
    /\ now = from
    /\ result = None
    /\ pc = "ready"
    /\ callLog = <<>>
    /\ NoProvider
    /\ NoReminders

\* the call: the result is returned, and the two argument objects are what
\* the call leaves of them
Compute ==
    /\ pc = "ready"
    /\ result' = computeNextPayDateForSchedule(schedule, from)
    /\ from' = computeNextPayDateForSchedule_from(schedule, from)
    /\ schedule' = computeNextPayDateForSchedule_schedule(schedule, from)
    /\ pc' = "done"
    /\ UNCHANGED <<tz, now, callLog, providerVars, reminderVars>>

Next == Compute

Spec == Init /\ [][Next]_vars

(***************************************************************************)
(* The same call over a sample of the references: three months, one with   *)
(* 28 days, one with a daylight-saving change, and the last December.      *)
(***************************************************************************)
SampleMonths == {<<FirstYear, 1>>, <<FirstYear, 9>>, <<FirstYear + NumYears - 1, 11>>}

SampleReferences == UNION { ReferencesIn(ym[1], ym[2]) : ym \in SampleMonths }

InitSample ==
    /\ tz \in TimeZones
    /\ schedule \in {None} \cup {Some(s) : s \in Schedules}
    /\ from \in SampleReferences
    /\ now = from
    /\ result = None
    /\ pc = "ready"
    /\ callLog = <<>>
    /\ NoProvider
    /\ NoReminders

SpecSample == InitSample /\ [][Next]_vars

(***************************************************************************)
(* Several calls in a row while the system clock runs.  The reference is   *)
(* an optional parameter: a call that leaves it out reads the clock.       *)
(***************************************************************************)
\* at most MaxCalls calls are made
MaxCalls == 3

\* the call reading the clock whatever reference is passed
callComputeNextPayDateForSchedule_clockOnly(sched, fromArg) ==
    computeNextPayDateForSchedule(sched, now)

\* from = new Date() is the default of the parameter
callComputeNextPayDateForSchedule(sched, fromArg) ==
    computeNextPayDateForSchedule(sched, OrElse(fromArg, now))

\* the readings of the clock: mid January, an October evening, the last December
ClockReadings ==
    { At(FirstYear, 0, 15, 9, 0, 30),
      At(FirstYear, 9, 28, 23, 59, 59),
      At(FirstYear + NumYears - 1, 11, 30, 0, 0, 0) }

CallReferences ==
    { At(FirstYear, 9, 20, t[1], t[2], t[3]) : t \in RefTimes }

InitCalls ==
    /\ tz \in TimeZones
    /\ schedule \in {None} \cup {Some(s) : s \in Schedules}
    /\ from \in CallReferences
    /\ now \in ClockReadings
    /\ result = None
    /\ pc = "ready"
    /\ callLog = <<>>
    /\ NoProvider
    /\ NoReminders

\* computeNextPayDateForSchedule(schedule, from)
CallWithReference ==
    /\ Len(callLog) < MaxCalls
    /\ result' = callComputeNextPayDateForSchedule(schedule, Some(from))
    /\ callLog' = Append(callLog, [reference |-> Some(from), clock |-> now,
                                   result |-> result'])
    /\ from' = computeNextPayDateForSchedule_from(schedule, from)
    /\ schedule' = computeNextPayDateForSchedule_schedule(schedule, from)
    /\ pc' = "done"
    /\ UNCHANGED <<tz, now, providerVars, reminderVars>>

\* computeNextPayDateForSchedule(schedule)
CallWithoutReference ==
    /\ Len(callLog) < MaxCalls
    /\ result' = callComputeNextPayDateForSchedule(schedule, None)
    /\ callLog' = Append(callLog, [reference |-> None, clock |-> now,
                                   result |-> result'])
    /\ schedule' = computeNextPayDateForSchedule_schedule(schedule, now)
    /\ pc' = "done"
    /\ UNCHANGED <<tz, now, from, providerVars, reminderVars>>

\* time passes
Tick ==
    /\ \E later \in ClockReadings : later > now /\ now' = later
    /\ UNCHANGED <<tz, calcVars, providerVars, reminderVars>>

NextCalls == CallWithReference \/ CallWithoutReference \/ Tick

SpecCalls == InitCalls /\ [][NextCalls]_vars

(***************************************************************************)
(* services/NotificationService.ts: schedulePaydayReminder.                *)
(***************************************************************************)
\* at most MaxReminders reminders are asked for
MaxReminders == 2

ReminderTypes == {"twoHoursAfter", "eightAmSameDay", "noonDayAfter"}

\* d.setHours(hour): minutes and seconds are kept, an hour past 23 carries
\* into the next day
setHours_hourOnly(t, hour) ==
    UTC((TimeWithinDay(t) % SecPerHour)
        + (LocalTime(t) \div SecPerDay) * SecPerDay + hour * SecPerHour)

\* let notificationDate = new Date(payDate); switch (reminderType) ...
notificationDateOf(payDate, reminderType) ==
    IF reminderType = "twoHoursAfter"
    THEN setHours_hourOnly(payDate, getHours(payDate) + 2)
    ELSE IF reminderType = "eightAmSameDay"
    THEN setHours(payDate, 8, 0)
    ELSE setHours(setDate(payDate, getDate(payDate) + 1), 12, 0)

\* schedulePaydayReminder returning only for a date before the clock (< for <=)
schedulePaydayReminder_onlyBefore(payDate, reminderType) ==
    IF notificationDateOf(payDate, reminderType) < now
    THEN None
    ELSE Some(notificationDateOf(payDate, reminderType))

\* the date handed to PushNotification.localNotificationSchedule, or the
\* absent value when the function returns before that call
schedulePaydayReminder(payDate, reminderType) ==
    IF notificationDateOf(payDate, reminderType) <= now
    THEN None
    ELSE Some(notificationDateOf(payDate, reminderType))

\* the pay dates passed in: around the night of October 28 to 29, when the
\* summer time of Europe/London ends
ReminderPayDates ==
    { At(FirstYear, 9, 27, 9, 0, 0),
      At(FirstYear, 9, 28, 9, 0, 0),
      At(FirstYear, 9, 28, 23, 30, 0),
      At(FirstYear, 9, 29, 6, 0, 0),
      At(FirstYear, 9, 29, 10, 0, 0),
      At(FirstYear, 9, 30, 9, 0, 10) }

\* the clock readings: some of them are a derived notification time exactly
ReminderClocks ==
    { At(FirstYear, 9, 28, 11, 0, 0),
      At(FirstYear, 9, 29, 1, 30, 0),
      At(FirstYear, 9, 29, 8, 0, 0),
      At(FirstYear, 9, 29, 12, 0, 0) }

InitReminders ==
    /\ tz \in TimeZones
    /\ now \in ReminderClocks
    /\ schedule = None
    /\ from = now
    /\ result = None
    /\ pc = "ready"
    /\ callLog = <<>>
    /\ NoProvider
    /\ NoReminders

SchedulePaydayReminder ==
    /\ Len(reminders) < MaxReminders
    /\ \E payDate \in ReminderPayDates, reminderType \in ReminderTypes :
          reminders' = Append(reminders,
                              [payDate |-> payDate,
                               reminderType |-> reminderType,
                               clock |-> now,
                               scheduled |-> schedulePaydayReminder(payDate, reminderType)])
    /\ UNCHANGED <<tz, now, calcVars, providerVars>>

NextReminders == SchedulePaydayReminder

SpecReminders == InitReminders /\ [][NextReminders]_vars

(***************************************************************************)
(* The provider: pay history.                                              *)
(*                                                                         *)
(* A PayDay as a caller or the storage supplies it may lack any of gross,  *)
(* taxes, net and breakdown (the code tests for each); a breakdown is the  *)
(* list of the amounts of its items, an item without a numeric amount      *)
(* being the absent value.  A PayDay of the state has the three totals.    *)
(***************************************************************************)
RECURSIVE SumAmounts(_)
\* breakdown.reduce((s, b) => s + (typeof b.amount === "number" ? b.amount : 0), 0)
SumAmounts(breakdown) ==
    IF breakdown = <<>> THEN 0
    ELSE SumAmounts(SubSeq(breakdown, 1, Len(breakdown) - 1))
            + OrElse(breakdown[Len(breakdown)], 0)

\* deriveTotalsFromBreakdown keeping a gross that was supplied
deriveTotalsFromBreakdown_keepGross(p) ==
    LET gross == IF p.gross # None THEN p.gross[1]
                 ELSE IF p.breakdown # None THEN SumAmounts(p.breakdown[1]) ELSE 0
        taxes == OrElse(p.taxes, 0)
        net   == IF p.net # None THEN p.net[1] ELSE gross - taxes
    IN  [date |-> p.date, breakdown |-> p.breakdown,
         gross |-> gross, taxes |-> taxes, net |-> net]

deriveTotalsFromBreakdown(p) ==
    LET gross == IF p.breakdown # None THEN SumAmounts(p.breakdown[1])
                 ELSE OrElse(p.gross, 0)
        taxes == OrElse(p.taxes, 0)
        net   == IF p.net # None THEN p.net[1] ELSE gross - taxes
    IN  [date |-> p.date, breakdown |-> p.breakdown,
         gross |-> gross, taxes |-> taxes, net |-> net]

RECURSIVE SortByDate(_)
\* [...arr].sort((a, b) => a.date - b.date): ascending and stable
SortByDate(arr) ==
    IF Len(arr) <= 1 THEN arr
    ELSE LET sorted == SortByDate(SubSeq(arr, 1, Len(arr) - 1))
             last   == arr[Len(arr)]
         IN  SelectSeq(sorted, LAMBDA e : e.date <= last.date)
                \o <<last>>
                \o SelectSeq(sorted, LAMBDA e : e.date > last.date)

\* sortHistory leaving the entries in the order given
sortHistory_asGiven(h) == h

sortHistory(h) == SortByDate(h)

\* h.map(deriveTotalsFromBreakdown), sorted
normalizeHistory(h) ==
    sortHistory([i \in DOMAIN h |-> deriveTotalsFromBreakdown(h[i])])

(***************************************************************************)
(* The provider: storage.  An item is a text.  The model keeps the value   *)
(* the text stands for, every member optional: the JSON text of the value  *)
(* v is <<v>>, and <<>> is a text that is no JSON.                         *)
(***************************************************************************)
\* a text JSON.parse throws on
NotJson == <<>>

\* JSON.parse(raw), for a raw that is JSON
JSONparse(raw) == raw[1]

\* JSON.stringify of a PayDay of the state
stringifyPayDay(p) ==
    [date |-> Some(p.date), breakdown |-> p.breakdown,
     gross |-> Some(p.gross), taxes |-> Some(p.taxes), net |-> Some(p.net)]

\* JSON.stringify({ employers })
stringify(emps) ==
    << [i \in DOMAIN emps |->
          [id |-> emps[i].id,
           schedule |-> emps[i].schedule,
           history |-> Some([k \in DOMAIN emps[i].history |->
                                stringifyPayDay(emps[i].history[k])])]] >>

\* the schedule parseEmployers builds from e?.schedule
parseSchedule(js) ==
    IF js = None
    THEN [payFrequency |-> "biweekly", dayOfWeek |-> None, dayOfMonth |-> None,
          biweeklyAnchorDate |-> None, hour |-> None, minute |-> None]
    ELSE [payFrequency |-> js[1].payFrequency,
          dayOfWeek |-> js[1].dayOfWeek,
          dayOfMonth |-> js[1].dayOfMonth,
          biweeklyAnchorDate |-> js[1].biweeklyAnchorDate,
          hour |-> js[1].hour,
          minute |-> js[1].minute]

\* the PayDay parseEmployers builds from a stored entry, or the absent value
\* for an entry it drops (date not above 0)
parsePayDay(p) ==
    LET base == [date      |-> OrElse(p.date, 0),
                 gross     |-> Some(OrElse(p.gross, 0)),
                 taxes     |-> Some(OrElse(p.taxes, 0)),
                 net       |-> Some(OrElse(p.net, 0)),
                 breakdown |-> IF p.breakdown # None THEN p.breakdown
                               ELSE Some(<<Some(OrElse(p.gross, 0))>>)]
    IN  IF base.date > 0 THEN Some(deriveTotalsFromBreakdown(base)) ELSE None

\* .map(...).filter(Boolean)
parseHistory(jh) ==
    IF jh = None THEN <<>>
    ELSE LET mapped == [i \in DOMAIN jh[1] |-> parsePayDay(jh[1][i])]
             kept   == SelectSeq(mapped, LAMBDA x : x # None)
         IN  [i \in DOMAIN kept |-> kept[i][1]]

parseEmployers(parsed) ==
    [i \in DOMAIN parsed |->
        [id |-> parsed[i].id,
         schedule |-> Some(parseSchedule(parsed[i].schedule)),
         history |-> sortHistory(parseHistory(parsed[i].history))]]

(***************************************************************************)
(* The provider: derived values.                                           *)
(***************************************************************************)
\* computeNextPayDateForSchedule(e.schedule) for each employer e, with its id
computedPayDates(emps) ==
    [i \in DOMAIN emps |->
        [employerId |-> emps[i].id,
         d |-> callComputeNextPayDateForSchedule(emps[i].schedule, None)]]

\* if (d) arr.push(...): the employers whose date is not null
pushedPayDates(computed) == SelectSeq(computed, LAMBDA x : x.d # None)

\* the { employerId, date } pushed for each of them
payDateEntries(pushed) ==
    [i \in DOMAIN pushed |-> [employerId |-> pushed[i].employerId, date |-> pushed[i].d[1]]]

\* nextPayDates returned in the order of the employers
nextPayDatesOf_unsorted(emps) == payDateEntries(pushedPayDates(computedPayDates(emps)))

\* the useMemo of nextPayDates, for the employers emps
nextPayDatesOf(emps) ==
    SortByDate(payDateEntries(pushedPayDates(computedPayDates(emps))))

\* nextPayDates[0] ?? null
nextSoonest == IF nextPayDates = <<>> THEN None ELSE Some(nextPayDates[1])

(***************************************************************************)
(* The provider: the inputs of the store operations and the items found in *)
(* the storage when the provider mounts.                                   *)
(***************************************************************************)
\* at most MaxOps store operations are called
MaxOps == 2

EmployerIds == {"a", "b"}

NoTime == [hour |-> None, minute |-> None]

WeeklyFriday == MkSchedule("weekly", None, None, None, NoTime)

MonthlyLast == MkSchedule("monthly", None, Some(31), None, NoTime)

BiweeklyAnchored ==
    MkSchedule("biweekly", None, None, Some(At(FirstYear, 5, 1, 9, 0, 0)), NoTime)

\* the clock when the provider renders: a Saturday night late in October
ProviderNow == At(FirstYear, 9, 28, 23, 59, 59)

MkPayDay(date, breakdown, gross, taxes, net) ==
    [date |-> date, breakdown |-> breakdown, gross |-> gross, taxes |-> taxes,
     net |-> net]

\* the entries callers pass: dates 1 and 2 (two entries on each); one with its
\* own net and a gross that is not the sum of its breakdown, one with totals
\* left out, one with an item that has no amount, one without a breakdown
EntryWithOwnNet == MkPayDay(1, Some(<<Some(100), Some(20)>>), Some(100), Some(10), Some(90))

EntryBreakdownOnly == MkPayDay(2, Some(<<Some(50)>>), None, None, None)

EntryItemWithoutAmount == MkPayDay(1, Some(<<Some(70), None>>), Some(70), Some(7), None)

EntryWithoutBreakdown == MkPayDay(2, None, Some(40), Some(4), None)

Entries ==
    {EntryWithOwnNet, EntryBreakdownOnly, EntryItemWithoutAmount, EntryWithoutBreakdown}

\* the histories callers pass: out of order, with a date twice, empty
Histories ==
    { <<EntryBreakdownOnly, EntryWithOwnNet>>,
      <<EntryWithOwnNet, EntryItemWithoutAmount>>,
      <<>> }

\* the employers passed to addEmployer: history is optional, the id is the
\* caller's (and may be taken), the schedule may be null at run time
NewEmployers ==
    { [id |-> "a", schedule |-> Some(WeeklyFriday),
       history |-> Some(<<EntryBreakdownOnly, EntryWithOwnNet>>)],
      [id |-> "b", schedule |-> Some(MonthlyLast), history |-> None],
      [id |-> "b", schedule |-> None, history |-> Some(<<>>)],
      [id |-> "a", schedule |-> Some(BiweeklyAnchored), history |-> None] }

\* the patches passed to updateEmployer: a schedule, a history, or both left out
Patches ==
    { [schedule |-> Some(MonthlyLast), history |-> None],
      [schedule |-> None, history |-> Some(<<EntryWithOwnNet, EntryItemWithoutAmount>>)],
      [schedule |-> None, history |-> None] }

\* an item as an earlier run of this version wrote it, with a date twice
StoredV3 ==
    << [id |-> "a", schedule |-> Some(WeeklyFriday),
        history |-> Some(<< MkPayDay(Some(1), Some(<<Some(60)>>), Some(60), Some(6), Some(54)),
                            MkPayDay(Some(1), Some(<<Some(30)>>), Some(30), Some(3), Some(27)),
                            MkPayDay(Some(2), Some(<<Some(80)>>), Some(80), Some(8), Some(72)) >>)] >>

\* an item of the previous version: entries without breakdown, out of order,
\* one without net, one without a usable date
StoredV2 ==
    << [id |-> "b", schedule |-> Some(BiweeklyAnchored),
        history |-> Some(<< MkPayDay(Some(2), None, Some(90), Some(9), Some(81)),
                            MkPayDay(Some(1), None, Some(40), Some(4), None),
                            MkPayDay(None, None, Some(10), Some(1), Some(9)) >>)] >>

(***************************************************************************)
(* The provider as a state machine: the hydrate effect's async function,   *)
(* the store operations, and the storage completing the writes.            *)
(***************************************************************************)
\* what the two keys hold when the provider mounts: nothing, an item written
\* by this or the previous version, or a text that is no JSON
InitialStorage ==
    { [v3 |-> None, v2 |-> None],
      [v3 |-> Some(Some(StoredV3)), v2 |-> None],
      [v3 |-> None, v2 |-> Some(Some(StoredV2))],
      [v3 |-> Some(Some(StoredV3)), v2 |-> Some(Some(StoredV2))],
      [v3 |-> Some(NotJson), v2 |-> Some(Some(StoredV2))],
      [v3 |-> None, v2 |-> Some(NotJson)] }

\* (one time zone: the summer time of Europe/London ends in the night that
\* follows ProviderNow)
InitProvider ==
    /\ tz = "Europe/London"
    /\ now = ProviderNow
    /\ schedule = None
    /\ from = now
    /\ result = None
    /\ pc = "ready"
    /\ callLog = <<>>
    /\ NoReminders
    /\ employers = <<>>
    /\ loading = TRUE
    /\ hydratedRef = FALSE
    /\ hydrate = "start"
    /\ initial = None
    /\ \E held \in InitialStorage : storageV2 = held.v2 /\ storageV3 = held.v3
    /\ writes = <<>>
    /\ nextPayDates = nextPayDatesOf(<<>>)
    /\ ops = 0
    /\ writeRejected = FALSE

\* DEFAULT_STATE, and that it is that very object
DEFAULT_STATE == [employers |-> <<>>, isDefault |-> TRUE]

\* writeToStorage(next): the call of AsyncStorage.setItem(STORAGE_KEY_V3, ...),
\* with hydratedRef.current as it is when the call is made
writeToStorage(next) == <<[item |-> stringify(next), hydrated |-> hydratedRef]>>

\* the persist effect, run after a render with a new state
persistEffect(flag, next) ==
    IF ~flag THEN <<>> ELSE <<[item |-> stringify(next), hydrated |-> flag]>>

\* const rawV3 = await AsyncStorage.getItem(STORAGE_KEY_V3); if (rawV3) ...
\* A getItem that is rejected and a JSON.parse that throws end in the catch
\* of readFromStorage: return DEFAULT_STATE
HydrateReadV3 ==
    /\ hydrate = "start"
    /\ \E getItemRejected \in BOOLEAN :
          IF getItemRejected \/ storageV3 = Some(NotJson)
          THEN /\ initial' = Some(DEFAULT_STATE)
               /\ hydrate' = "finish"
          ELSE IF storageV3 # None
          THEN /\ initial' = Some([employers |-> parseEmployers(JSONparse(storageV3[1])),
                                   isDefault |-> FALSE])
               /\ hydrate' = "finish"
          ELSE /\ initial' = initial
               /\ hydrate' = "readV2"
    /\ UNCHANGED <<tz, now, calcVars, reminderVars, employers, loading, hydratedRef,
                   storageV2, storageV3, writes, nextPayDates, ops, writeRejected>>

\* const rawV2 = await AsyncStorage.getItem(STORAGE_KEY_V2); if (rawV2) ...
HydrateReadV2 ==
    /\ hydrate = "readV2"
    /\ \E getItemRejected \in BOOLEAN :
          IF getItemRejected \/ storageV2 = Some(NotJson)
          THEN /\ initial' = Some(DEFAULT_STATE)
               /\ hydrate' = "finish"
          ELSE IF storageV2 # None
          THEN /\ initial' = Some([employers |-> parseEmployers(JSONparse(storageV2[1])),
                                   isDefault |-> FALSE])
               /\ hydrate' = "migrate"
          ELSE /\ initial' = Some(DEFAULT_STATE)
               /\ hydrate' = "finish"
    /\ UNCHANGED <<tz, now, calcVars, reminderVars, employers, loading, hydratedRef,
                   storageV2, storageV3, writes, nextPayDates, ops, writeRejected>>

\* await AsyncStorage.setItem(STORAGE_KEY_V3, JSON.stringify({ employers }));
\* a setItem that is rejected ends in the catch as well
HydrateMigrate ==
    /\ hydrate = "migrate"
    /\ \E setItemRejected \in BOOLEAN :
          IF setItemRejected
          THEN /\ initial' = Some(DEFAULT_STATE)
               /\ storageV3' = storageV3
               /\ writeRejected' = TRUE
          ELSE /\ initial' = initial
               /\ storageV3' = Some(stringify(initial[1].employers))
               /\ writeRejected' = writeRejected
    /\ hydrate' = "finish"
    /\ UNCHANGED <<tz, now, calcVars, reminderVars, employers, loading, hydratedRef,
                   storageV2, writes, nextPayDates, ops>>

\* setState(initial); hydratedRef.current = true; setLoading(false), and the
\* render that follows: the persist effect runs when the state is a new object
\* (setState(DEFAULT_STATE) on the untouched default state is no change)
HydrateFinish ==
    /\ hydrate = "finish"
    /\ employers' = initial[1].employers
    /\ hydratedRef' = TRUE
    /\ loading' = FALSE
    /\ hydrate' = "done"
    /\ nextPayDates' = nextPayDatesOf(employers')
    /\ writes' = writes \o (IF initial[1].isDefault /\ ops = 0 THEN <<>>
                            ELSE persistEffect(TRUE, employers'))
    /\ UNCHANGED <<tz, now, calcVars, reminderVars, initial, storageV2, storageV3, ops,
                   writeRejected>>

\* a call of AsyncStorage.setItem made by writeToStorage completes, or is
\* rejected (catch { // ignore })
StorageWrite ==
    /\ writes # <<>>
    /\ \E setItemRejected \in BOOLEAN :
          IF setItemRejected
          THEN /\ storageV3' = storageV3
               /\ writeRejected' = TRUE
          ELSE /\ storageV3' = Some(Head(writes).item)
               /\ writeRejected' = writeRejected
    /\ writes' = Tail(writes)
    /\ UNCHANGED <<tz, now, calcVars, reminderVars, employers, loading, hydratedRef, hydrate,
                   initial, storageV2, nextPayDates, ops>>

\* the state change of an operation without any call of writeToStorage
SetStateAndWrite_withoutWrite(next) ==
    /\ ops < MaxOps
    /\ ops' = ops + 1
    /\ employers' = next
    /\ nextPayDates' = nextPayDatesOf(next)
    /\ writes' = writes
    /\ UNCHANGED <<tz, now, calcVars, reminderVars, loading, hydratedRef, hydrate, initial,
                   storageV2, storageV3, writeRejected>>

\* setState((prev) => { const next = ...; writeToStorage(next); return next; })
\* and the render that follows: nextPayDates is recomputed, the persist effect
\* runs
SetStateAndWrite(next) ==
    /\ ops < MaxOps
    /\ ops' = ops + 1
    /\ employers' = next
    /\ nextPayDates' = nextPayDatesOf(next)
    /\ writes' = writes \o writeToStorage(next) \o persistEffect(hydratedRef, next)
    /\ UNCHANGED <<tz, now, calcVars, reminderVars, loading, hydratedRef, hydrate, initial,
                   storageV2, storageV3, writeRejected>>

\* the employers of the state, as a set
PrevEmployers == {employers[i] : i \in DOMAIN employers}

\* mutateEmployer applying the callback to every employer
mutateEmployer_everyEmployer(id, mut) ==
    SetStateAndWrite([i \in DOMAIN employers |-> mut[employers[i]]])

\* prev.employers.map((e) => (e.id === id ? mut(e) : e)); mut is given as the
\* function from each employer of the state to what the callback makes of it
mutateEmployer(id, mut) ==
    SetStateAndWrite([i \in DOMAIN employers |->
                         IF employers[i].id = id THEN mut[employers[i]]
                         ELSE employers[i]])

addEmployer(emp) ==
    LET withHistory == [id |-> emp.id, schedule |-> emp.schedule,
                        history |-> normalizeHistory(OrElse(emp.history, <<>>))]
    IN  SetStateAndWrite(Append(employers, withHistory))

\* the payFrequency of a schedule object that has no such property
NoFrequency == "undefined"

\* { ...e.schedule, ...(patch.schedule ?? {}) }
mergeSchedule(old, patch) ==
    LET a == IF old = None
             THEN [payFrequency |-> NoFrequency, dayOfWeek |-> None,
                   dayOfMonth |-> None, biweeklyAnchorDate |-> None,
                   hour |-> None, minute |-> None]
             ELSE old[1]
    IN  IF patch = None THEN a
        ELSE [payFrequency |-> patch[1].payFrequency,
              dayOfWeek |-> IF patch[1].dayOfWeek # None THEN patch[1].dayOfWeek
                            ELSE a.dayOfWeek,
              dayOfMonth |-> IF patch[1].dayOfMonth # None THEN patch[1].dayOfMonth
                             ELSE a.dayOfMonth,
              biweeklyAnchorDate |-> IF patch[1].biweeklyAnchorDate # None
                                     THEN patch[1].biweeklyAnchorDate
                                     ELSE a.biweeklyAnchorDate,
              hour |-> IF patch[1].hour # None THEN patch[1].hour ELSE a.hour,
              minute |-> IF patch[1].minute # None THEN patch[1].minute ELSE a.minute]

updateEmployer(id, patch) ==
    SetStateAndWrite([i \in DOMAIN employers |->
        IF employers[i].id = id
        THEN [id |-> employers[i].id,
              schedule |-> Some(mergeSchedule(employers[i].schedule, patch.schedule)),
              history |-> IF patch.history # None
                          THEN normalizeHistory(patch.history[1])
                          ELSE employers[i].history]
        ELSE employers[i]])

deleteEmployer(id) ==
    SetStateAndWrite(SelectSeq(employers, LAMBDA e : e.id # id))

\* addPayday that never filters the entries of the same date out
addPayday_neverReplaces(employerId, entry, replaceIfSameDate) ==
    LET normalized == deriveTotalsFromBreakdown(entry)
        mut == [e \in PrevEmployers |->
                   [e EXCEPT !.history = sortHistory(Append(e.history, normalized))]]
    IN  mutateEmployer(employerId, mut)

addPayday(employerId, entry, replaceIfSameDate) ==
    LET normalized == deriveTotalsFromBreakdown(entry)
        mut == [e \in PrevEmployers |->
                   [e EXCEPT !.history =
                       sortHistory(Append(
                           IF replaceIfSameDate
                           THEN SelectSeq(e.history, LAMBDA p : p.date # normalized.date)
                           ELSE e.history,
                           normalized))]]
    IN  mutateEmployer(employerId, mut)

upsertPayday(employerId, entry) == addPayday(employerId, entry, TRUE)

deletePaydayByDate(employerId, dateMs) ==
    LET mut == [e \in PrevEmployers |->
                   [e EXCEPT !.history = SelectSeq(e.history, LAMBDA p : p.date # dateMs)]]
    IN  mutateEmployer(employerId, mut)

setEmployerHistory(employerId, nextHist) ==
    LET mut == [e \in PrevEmployers |-> [e EXCEPT !.history = normalizeHistory(nextHist)]]
    IN  mutateEmployer(employerId, mut)

AddEmployer == \E emp \in NewEmployers : addEmployer(emp)

UpdateEmployer == \E id \in EmployerIds, patch \in Patches : updateEmployer(id, patch)

DeleteEmployer == \E id \in EmployerIds : deleteEmployer(id)

AddPayday == \E id \in EmployerIds, entry \in Entries : addPayday(id, entry, FALSE)

UpsertPayday == \E id \in EmployerIds, entry \in Entries : upsertPayday(id, entry)

DeletePaydayByDate ==
    \E id \in EmployerIds, dateMs \in {1, 2} : deletePaydayByDate(id, dateMs)

SetEmployerHistory ==
    \E id \in EmployerIds, nextHist \in Histories : setEmployerHistory(id, nextHist)

NextProvider ==
    \/ HydrateReadV3
    \/ HydrateReadV2
    \/ HydrateMigrate
    \/ HydrateFinish
    \/ StorageWrite
    \/ AddEmployer
    \/ UpdateEmployer
    \/ DeleteEmployer
    \/ AddPayday
    \/ UpsertPayday
    \/ DeletePaydayByDate
    \/ SetEmployerHistory

SpecProvider == InitProvider /\ [][NextProvider]_vars

(***************************************************************************)
(* Vocabulary of the properties below.                                     *)
(***************************************************************************)
Done == pc = "done"

IsFrequency(f) == schedule # None /\ schedule[1].payFrequency = f

Returned == result[1]

\* the biweekly branch that aligns to the anchor is the one taken
IsAnchored ==
    /\ IsFrequency("biweekly")
    /\ schedule[1].biweeklyAnchorDate # None
    /\ schedule[1].biweeklyAnchorDate[1] > 0

ConfiguredHour == OrElse(schedule[1].hour, 9)

ConfiguredMinute == OrElse(schedule[1].minute, 0)

ConfiguredDayOfMonth == OrElse(schedule[1].dayOfMonth, 1)

\* the day number of the local calendar day of an instant
LocalDay(t) == LocalTime(t) \div SecPerDay

\* the calendar day of t at the configured hour and minute
AtConfiguredTime(t) ==
    At(getFullYear(t), getMonth(t), getDate(t), ConfiguredHour, ConfiguredMinute, 0)

\* months counted from year 0, so that December + 1 is January of the next year
MonthNumber(t) == getFullYear(t) * 12 + getMonth(t)

\* dayOfMonth clamped to the length of month number n, at the configured time
ScheduledInstantIn(n) ==
    LET y   == n \div 12
        m   == n % 12
        day == Max(1, Min(ConfiguredDayOfMonth, DaysInMonth(y, m)))
    IN  At(y, m, day, ConfiguredHour, ConfiguredMinute, 0)

(***************************************************************************)
(* C1.  For every schedule and every reference instant, the instant        *)
(* returned is not earlier than the reference as passed in (with its own   *)
(* time of day).                                                           *)
(***************************************************************************)
C1_NotBeforeReference ==
    (Done /\ schedule # None) => Returned >= from

C3_Case ==
    /\ Done
    /\ IsAnchored
    /\ getMonth(schedule[1].biweeklyAnchorDate[1]) = 5
    /\ getDate(schedule[1].biweeklyAnchorDate[1]) = 1
    /\ getFullYear(from) = getFullYear(schedule[1].biweeklyAnchorDate[1])
    /\ getMonth(from) = 5
    /\ getDate(from) = 20
    /\ from = AtConfiguredTime(from)

C3_Original_July13 ==
    C3_Case =>
        /\ getMonth(Returned) = 6
        /\ getDate(Returned) = 13
        /\ Returned = AtConfiguredTime(schedule[1].biweeklyAnchorDate[1]) + 3 * MS_14D

(***************************************************************************)
(* C3, amended.  In that case the result is June 29, anchor + 28 days      *)
(* (k = 2): June 15 is before the reference, June 29 is the first          *)
(* occurrence at or after it.                                              *)
(***************************************************************************)
C3_June29 ==
    C3_Case =>
        /\ getFullYear(Returned) = getFullYear(from)
        /\ getMonth(Returned) = 5
        /\ getDate(Returned) = 29
        /\ Returned = AtConfiguredTime(schedule[1].biweeklyAnchorDate[1]) + 2 * MS_14D

C3_Witness == C3_Case /\ getDate(Returned) = 29

(***************************************************************************)
(* C4.  Anchored biweekly: whenever the reference at the configured time   *)
(* is at or before the anchor at the configured time, the result is the    *)
(* anchor instant itself, however far ahead it lies.                       *)
(***************************************************************************)
C4_AnchorItself ==
    (Done /\ IsAnchored) =>
        LET anchor == AtConfiguredTime(schedule[1].biweeklyAnchorDate[1])
        IN  AtConfiguredTime(from) <= anchor => Returned = anchor

\* the anchor lies more than a year after the reference
C4_Witness ==
    /\ Done
    /\ IsAnchored
    /\ LocalDay(schedule[1].biweeklyAnchorDate[1]) - LocalDay(from) > 365
    /\ Returned = AtConfiguredTime(schedule[1].biweeklyAnchorDate[1])

(***************************************************************************)
(* C5.  Weekly with one of the seven weekday names: the result falls on    *)
(* the target weekday, 1 to 7 calendar days after the reference's calendar *)
(* day: 7 days when the reference day is the target weekday (at any time   *)
(* of day), otherwise on the first later day with that weekday.            *)
(***************************************************************************)
C5_WeeklyNextWeekday ==
    (Done /\ IsFrequency("weekly") /\ schedule[1].dayOfWeek # None
          /\ schedule[1].dayOfWeek[1] \in WeekdayNames) =>
        LET target == dayNameToIndex(schedule[1].dayOfWeek[1])
            ahead  == LocalDay(Returned) - LocalDay(from)
        IN  /\ target \in 0..6
            /\ getDay(Returned) = target
            /\ ahead \in 1..7
            /\ (getDay(from) = target => ahead = 7)
            /\ (getDay(from) # target =>
                  \A n \in 1 .. (ahead - 1) : (getDay(from) + n) % 7 # target)

\* the reference is on the target weekday, before the configured time of day
C5_Witness ==
    /\ Done
    /\ IsFrequency("weekly")
    /\ schedule[1].dayOfWeek # None
    /\ schedule[1].dayOfWeek[1] \in WeekdayNames
    /\ getDay(from) = dayNameToIndex(schedule[1].dayOfWeek[1])
    /\ from < AtConfiguredTime(from)
    /\ LocalDay(Returned) - LocalDay(from) = 7

(***************************************************************************)
(* C6.  Monthly: with candidate the reference's month at dayOfMonth        *)
(* (clamped to that month) at the configured time, and adjusted the        *)
(* reference at the configured time, the result is candidate when          *)
(* candidate > adjusted, and otherwise dayOfMonth clamped to the next      *)
(* calendar month, in that month, at the configured time.                  *)
(***************************************************************************)
C6_MonthlyCandidateOrNextMonth ==
    (Done /\ IsFrequency("monthly")) =>
        LET candidate == ScheduledInstantIn(MonthNumber(from))
            adjusted  == AtConfiguredTime(from)
        IN  Returned = IF candidate > adjusted
                       THEN candidate
                       ELSE ScheduledInstantIn(MonthNumber(from) + 1)

\* reference March 15, dayOfMonth 1: the result is April 1
C6_Witness ==
    /\ Done
    /\ IsFrequency("monthly")
    /\ ConfiguredDayOfMonth = 1
    /\ getMonth(from) = 2
    /\ getDate(from) = 15
    /\ getMonth(Returned) = 3
    /\ getDate(Returned) = 1

(***************************************************************************)
(* C7.  Monthly, reference on the scheduled day of month.  As claimed:     *)
(* when the scheduled instant of that day is still in the future relative  *)
(* to the reference the result is that same day at the configured time,    *)
(* and only otherwise the clamped day of the next month.                   *)
(***************************************************************************)
C7_Case ==
    /\ Done
    /\ IsFrequency("monthly")
    /\ getDate(from) = ConfiguredDayOfMonth

C7_Original_SameDayWhileFuture ==
    C7_Case =>
        Returned = IF AtConfiguredTime(from) > from
                   THEN AtConfiguredTime(from)
                   ELSE ScheduledInstantIn(MonthNumber(from) + 1)

(***************************************************************************)
(* C7, amended.  Monthly, reference on the scheduled day of month: the     *)
(* result is the clamped day of the next month at the configured time,     *)
(* whatever the reference's time of day, also when the scheduled instant   *)
(* of the reference's day is still in the future.                          *)
(***************************************************************************)
C7_ScheduledDayRollsToNextMonth ==
    C7_Case => Returned = ScheduledInstantIn(MonthNumber(from) + 1)

\* January 31 before the configured time, dayOfMonth 31: the last day of February
C7_Witness ==
    /\ C7_Case
    /\ ConfiguredDayOfMonth = 31
    /\ getMonth(from) = 0
    /\ from < AtConfiguredTime(from)
    /\ getMonth(Returned) = 1
    /\ getDate(Returned) = DaysInMonth(getFullYear(from), 1)

(***************************************************************************)
(* C8.  Monthly with dayOfMonth >= 1: the day of month of the result is    *)
(* min(dayOfMonth, days in the result's own month), leap years respected,  *)
(* and the result lies in the reference's month or the one after it.       *)
(***************************************************************************)
C8_DayOfMonthClamped ==
    (Done /\ IsFrequency("monthly") /\ ConfiguredDayOfMonth >= 1) =>
        /\ getDate(Returned) =
              Min(ConfiguredDayOfMonth,
                  DaysInMonth(getFullYear(Returned), getMonth(Returned)))
        /\ MonthNumber(Returned) - MonthNumber(from) \in {0, 1}

\* dayOfMonth 31 in a leap year's February: the 29th
C8_Witness ==
    /\ Done
    /\ IsFrequency("monthly")
    /\ ConfiguredDayOfMonth = 31
    /\ getMonth(Returned) = 1
    /\ getDate(Returned) = 29

(***************************************************************************)
(* C9.  Biweekly with an absent, zero or negative anchor: the result is    *)
(* that of the weekly computation with the same dayOfWeek (Friday when     *)
(* absent), hour and minute.                                               *)
(***************************************************************************)
C9_UnanchoredIsWeekly ==
    (Done /\ IsFrequency("biweekly") /\ ~IsAnchored) =>
        /\ result = computeNextPayDateForSchedule(
                        Some([schedule[1] EXCEPT !.payFrequency = "weekly"]), from)
        /\ LocalDay(Returned) - LocalDay(from) \in 1..7
        /\ getDay(Returned) = dayNameToIndex(OrElse(schedule[1].dayOfWeek, "friday"))

\* a negative anchor, and a result less than 14 days ahead
C9_Witness ==
    /\ Done
    /\ IsFrequency("biweekly")
    /\ schedule[1].biweeklyAnchorDate # None
    /\ schedule[1].biweeklyAnchorDate[1] < 0
    /\ schedule[1].dayOfWeek = Some("monday")
    /\ getDay(Returned) = 1

(***************************************************************************)
(* C10.  With no schedule (null) the call returns null for every           *)
(* reference; with a schedule it returns an instant.                       *)
(***************************************************************************)
C10_NullIffNoSchedule ==
    Done => /\ (schedule = None => result = None)
            /\ (schedule # None => result # None /\ Returned \in Int)

C10_Witness == Done /\ schedule = None /\ result = None

(***************************************************************************)
(* C12.  The result depends only on the fields of the active frequency:    *)
(* weekly is unchanged by any change of dayOfMonth or biweeklyAnchorDate,  *)
(* monthly by any change of dayOfWeek or biweeklyAnchorDate, biweekly with *)
(* a positive anchor by any change of dayOfWeek or dayOfMonth.             *)
(***************************************************************************)
OtherDaysOfWeek == {None, Some("monday"), Some("saturday")}

OtherDaysOfMonth == {None, Some(1), Some(31)}

OtherAnchors == {None, Some(0)} \cup {Some(a) : a \in Anchors}

C12_OnlyActiveFields ==
    (Done /\ schedule # None) =>
        LET s == schedule[1]
        IN  /\ IsFrequency("weekly") =>
                 \A dom \in OtherDaysOfMonth, a \in OtherAnchors :
                    computeNextPayDateForSchedule(
                        Some([s EXCEPT !.dayOfMonth = dom, !.biweeklyAnchorDate = a]),
                        from) = result
            /\ IsFrequency("monthly") =>
                 \A dow \in OtherDaysOfWeek, a \in OtherAnchors :
                    computeNextPayDateForSchedule(
                        Some([s EXCEPT !.dayOfWeek = dow, !.biweeklyAnchorDate = a]),
                        from) = result
            /\ IsAnchored =>
                 \A dow \in OtherDaysOfWeek, dom \in OtherDaysOfMonth :
                    computeNextPayDateForSchedule(
                        Some([s EXCEPT !.dayOfWeek = dow, !.dayOfMonth = dom]),
                        from) = result

\* a weekly result on a Friday that a positive anchor and a dayOfMonth of 31 leave as it is
C12_Witness ==
    /\ Done
    /\ IsFrequency("weekly")
    /\ getDay(Returned) = 5
    /\ \E a \in Anchors :
          computeNextPayDateForSchedule(
              Some([schedule[1] EXCEPT !.dayOfMonth = Some(31),
                                       !.biweeklyAnchorDate = Some(a)]),
              from) = result

(***************************************************************************)
(* C13.  A schedule with an absent field gives the same result as the one  *)
(* with the documented default written out: dayOfWeek friday (weekly and   *)
(* unanchored biweekly), dayOfMonth 1 (monthly), hour 9 and minute 0 (all  *)
(* frequencies, each independently of the other).                          *)
(***************************************************************************)
\* the schedules got from s by leaving out any of the four defaulted fields
WithFieldsLeftOut(s) ==
    { [s EXCEPT !.dayOfWeek = dow, !.dayOfMonth = dom, !.hour = h, !.minute = m] :
        dow \in {s.dayOfWeek, None}, dom \in {s.dayOfMonth, None},
        h \in {s.hour, None}, m \in {s.minute, None} }

\* s with the documented default written into every absent field
DefaultsWrittenOut(s) ==
    [s EXCEPT !.dayOfWeek  = IF @ = None THEN Some("friday") ELSE @,
              !.dayOfMonth = IF @ = None THEN Some(1) ELSE @,
              !.hour       = IF @ = None THEN Some(9) ELSE @,
              !.minute     = IF @ = None THEN Some(0) ELSE @]

C13_AbsentIsDefault ==
    (Done /\ schedule # None) =>
        \A s \in WithFieldsLeftOut(schedule[1]) :
            computeNextPayDateForSchedule(Some(s), from) =
                computeNextPayDateForSchedule(Some(DefaultsWrittenOut(s)), from)

\* a weekly schedule with nothing but its frequency: a Friday at 09:00
C13_Witness ==
    /\ Done
    /\ IsFrequency("weekly")
    /\ schedule[1].dayOfWeek = None
    /\ schedule[1].hour = None
    /\ schedule[1].minute = None
    /\ result = computeNextPayDateForSchedule(Some(DefaultsWrittenOut(schedule[1])), from)
    /\ getDay(Returned) = 5
    /\ getHours(Returned) = 9
    /\ getMinutes(Returned) = 0

(***************************************************************************)
(* C14.  For every frequency and every reference, the local time of day of *)
(* the returned instant is the configured hour and minute (09:00 when      *)
(* absent) with zero seconds; this includes anchored biweekly results.     *)
(* (Stated for the days on which that local time exists: a daylight-saving *)
(* change that skips the configured time is not held against the claim.)   *)
(***************************************************************************)
ConfiguredTimeExistsOn(t) ==
    /\ getHours(AtConfiguredTime(t)) = ConfiguredHour
    /\ getMinutes(AtConfiguredTime(t)) = ConfiguredMinute

C14_LocalTimeIsConfigured ==
    (Done /\ schedule # None /\ ConfiguredTimeExistsOn(Returned)) =>
        /\ getHours(Returned) = ConfiguredHour
        /\ getMinutes(Returned) = ConfiguredMinute
        /\ getSeconds(Returned) = 0

(***************************************************************************)
(* C15.  A call of computeNextPayDateForSchedule leaves the schedule       *)
(* object and the reference Date passed in as they were, and writes no     *)
(* state outside the call: a step that makes the call changes the result   *)
(* (and the position) only.                                                *)
(***************************************************************************)
C15_ArgumentsUnchanged ==
    [][(pc = "ready" /\ pc' = "done") =>
          /\ schedule' = schedule
          /\ from' = from
          /\ UNCHANGED <<tz, now, callLog, providerVars, reminderVars>>]_vars

\* a call with a reference that is not at the configured time of day (so
\* that normalizing it in place would have moved it) has returned
C15_Witness ==
    /\ Done
    /\ schedule # None
    /\ result # None
    /\ from # atTime(from, schedule[1].hour, schedule[1].minute)

(***************************************************************************)
(* C16.  Invalid sub-fields fall back to the documented defaults: a weekly *)
(* schedule whose dayOfWeek is none of the seven names gives the result of *)
(* dayOfWeek = friday, and a monthly schedule whose dayOfMonth is below 1  *)
(* gives the result of dayOfMonth = 1.                                     *)
(***************************************************************************)
C16_InvalidFieldsFallBack ==
    (Done /\ schedule # None) =>
        LET s == schedule[1]
        IN  /\ (IsFrequency("weekly") /\ s.dayOfWeek # None
                  /\ s.dayOfWeek[1] \notin WeekdayNames) =>
                 result = computeNextPayDateForSchedule(
                              Some([s EXCEPT !.dayOfWeek = Some("friday")]), from)
            /\ (IsFrequency("monthly") /\ s.dayOfMonth # None /\ s.dayOfMonth[1] < 1) =>
                 result = computeNextPayDateForSchedule(
                              Some([s EXCEPT !.dayOfMonth = Some(1)]), from)

(***************************************************************************)
(* C11.  Two calls with the same schedule and the same explicitly supplied *)
(* reference return the same instant, whatever the system clock reads and  *)
(* whatever calls were made in between.                                    *)
(***************************************************************************)
C11_SameInputsSameResult ==
    \A i, j \in DOMAIN callLog :
        (callLog[i].reference # None /\ callLog[i].reference = callLog[j].reference)
            => callLog[i].result = callLog[j].result

\* two calls with the reference, at different readings of the clock, around
\* a call without it that returned another instant
C11_Witness ==
    /\ Len(callLog) = 3
    /\ callLog[1].reference = Some(from)
    /\ callLog[2].reference = None
    /\ callLog[3].reference = Some(from)
    /\ callLog[1].clock # callLog[3].clock
    /\ callLog[1].result # None
    /\ callLog[2].result # callLog[1].result

(***************************************************************************)
(* Vocabulary of the provider's properties.                                *)
(***************************************************************************)
\* every PayDay held in some employer's history
HeldPayDays == UNION { {e.history[i] : i \in DOMAIN e.history} :
                       e \in {employers[k] : k \in DOMAIN employers} }

(***************************************************************************)
(* C17.  In every state of the provider nextPayDates is ordered by         *)
(* non-decreasing instant and holds one entry for each employer of         *)
(* state.employers that has a schedule (so at most one per employer), and  *)
(* nextSoonest is its first entry, an entry with the minimum instant, or   *)
(* null exactly when nextPayDates is empty.                                *)
(***************************************************************************)
C17_NextPayDatesSorted ==
    /\ \A i, j \in DOMAIN nextPayDates :
          i < j => nextPayDates[i].date <= nextPayDates[j].date
    /\ Len(nextPayDates) <= Len(employers)
    /\ \A id \in EmployerIds :
          Len(SelectSeq(nextPayDates, LAMBDA x : x.employerId = id))
             = Len(SelectSeq(employers, LAMBDA e : e.id = id /\ e.schedule # None))
    /\ (nextSoonest = None) <=> (nextPayDates = <<>>)
    /\ nextSoonest # None =>
          /\ nextSoonest[1] = nextPayDates[1]
          /\ \A i \in DOMAIN nextPayDates : nextSoonest[1].date <= nextPayDates[i].date

\* two employers with a schedule, the second of them paid first
C17_Witness ==
    /\ Len(employers) = 2
    /\ Len(nextPayDates) = 2
    /\ employers[1].id # employers[2].id
    /\ nextPayDates[1].employerId = employers[2].id
    /\ nextPayDates[1].date < nextPayDates[2].date
    /\ nextSoonest = Some(nextPayDates[1])

C19_NetIsGrossMinusTaxes ==
    \A p \in HeldPayDays : p.net = p.gross - p.taxes

(***************************************************************************)
(* C20.  The provider persists state only post-hydration: in every         *)
(* interleaving of the hydrate effect with the store operations,           *)
(* writeToStorage is never invoked before hydration has completed          *)
(* (hydratedRef still false).                                              *)
(***************************************************************************)
C20_WritesOnlyAfterHydration ==
    \A i \in DOMAIN writes : writes[i].hydrated

(***************************************************************************)
(* Vocabulary of the hydration properties.                                 *)
(***************************************************************************)
\* what readFromStorage returns when it builds the state from the item raw
BuiltFrom(raw) ==
    Some([employers |-> parseEmployers(JSONparse(raw)), isDefault |-> FALSE])

\* the step of the hydrate effect that reads the v3 key, the v2 key
ReadsV3 == hydrate = "start" /\ hydrate' # "start"

ReadsV2 == hydrate = "readV2" /\ hydrate' # "readV2"

(***************************************************************************)
(* C21.  Hydration prefers the v3 key and migrates from v2 only when v3 is *)
(* missing.  When v3 holds a value the state is built from it and v2 is    *)
(* not read; when v3 is missing and v2 holds a value the state is built    *)
(* from v2, the migrated employers are written under the v3 key and v2 is  *)
(* left as it was; when neither holds a value, or a read or a parse fails, *)
(* the state is the empty employer list.  (A failed read cannot be told    *)
(* from the state, so a read step may always end with the empty list; a    *)
(* text that is no JSON must.)                                             *)
(***************************************************************************)
C21_HydrationPrefersV3 ==
    [][/\ ReadsV3 /\ storageV3 # None =>
            /\ hydrate' = "finish"
            /\ \/ initial' = Some(DEFAULT_STATE)
               \/ storageV3[1] # NotJson /\ initial' = BuiltFrom(storageV3[1])
       /\ ReadsV3 /\ storageV3 = None =>
            \/ hydrate' = "readV2" /\ initial' = initial
            \/ hydrate' = "finish" /\ initial' = Some(DEFAULT_STATE)
       /\ ReadsV2 /\ storageV2 # None =>
            \/ hydrate' = "finish" /\ initial' = Some(DEFAULT_STATE)
            \/ /\ storageV2[1] # NotJson
               /\ hydrate' = "migrate"
               /\ initial' = BuiltFrom(storageV2[1])
       /\ ReadsV2 /\ storageV2 = None =>
            hydrate' = "finish" /\ initial' = Some(DEFAULT_STATE)
       /\ hydrate = "migrate" /\ hydrate' # "migrate" =>
            /\ hydrate' = "finish"
            /\ initial' = initial
            /\ storageV3' = Some(stringify(initial[1].employers))
       /\ hydrate = "finish" /\ hydrate' # "finish" =>
            /\ hydrate' = "done"
            /\ employers' = initial[1].employers
       /\ storageV2' = storageV2]_vars

(***************************************************************************)
(* C22.  schedulePaydayReminder never schedules a notification whose fire  *)
(* time is at or before the current time: for each of the three reminder   *)
(* types, a notification that was scheduled fires strictly after the clock *)
(* reading of the call, and when the derived notification time is not      *)
(* strictly later than that reading, none is scheduled.                    *)
(***************************************************************************)
C22_NoReminderInThePast ==
    \A i \in DOMAIN reminders :
        /\ reminders[i].scheduled # None =>
              reminders[i].scheduled[1] > reminders[i].clock
        /\ notificationDateOf(reminders[i].payDate, reminders[i].reminderType)
                <= reminders[i].clock =>
              reminders[i].scheduled = None

\* a call whose notification time is the clock reading exactly, so nothing
\* is scheduled, and a call of each type that schedules
C22_Witness ==
    /\ \E i \in DOMAIN reminders :
          /\ reminders[i].scheduled = None
          /\ notificationDateOf(reminders[i].payDate, reminders[i].reminderType)
                = reminders[i].clock
    /\ \E i \in DOMAIN reminders : reminders[i].scheduled # None

(***************************************************************************)
(* C23.  For a monthly schedule with a dayOfMonth in 1..31 (1 when it is   *)
(* absent) and any reference, the result lies in the reference's calendar  *)
(* month or in the month that follows it, never later; for a December      *)
(* reference that rolls over, the result is in January of the next year.   *)
(***************************************************************************)
C23_MonthlyWithinNextMonth ==
    Done /\ IsFrequency("monthly") /\ ConfiguredDayOfMonth \in 1..31 =>
        /\ MonthNumber(Returned) \in {MonthNumber(from), MonthNumber(from) + 1}
        /\ getMonth(from) = 11 /\ MonthNumber(Returned) # MonthNumber(from) =>
              /\ getMonth(Returned) = 0
              /\ getFullYear(Returned) = getFullYear(from) + 1

\* a reference on December 31, after the configured time, with day 31
\* configured: the result is in January of the next year
C23_Witness ==
    /\ Done
    /\ IsFrequency("monthly")
    /\ ConfiguredDayOfMonth = 31
    /\ getMonth(from) = 11
    /\ getDate(from) = 31
    /\ getMonth(Returned) = 0
    /\ getFullYear(Returned) = getFullYear(from) + 1

(***************************************************************************)
(* C24.  Feeding a result back as the reference: for a weekly schedule     *)
(* (dayOfWeek one of the seven names, or absent) the second result is      *)
(* exactly 7 calendar days after the first; for an anchored biweekly       *)
(* schedule the second result equals the first.                            *)
(***************************************************************************)
\* compute(schedule, compute(schedule, r)), r being the reference of the call
FedBack == computeNextPayDateForSchedule(schedule, Returned)

HasWeekdayName ==
    schedule[1].dayOfWeek = None \/ schedule[1].dayOfWeek[1] \in WeekdayNames

C24_FeedingBack ==
    Done =>
        /\ (IsFrequency("weekly") /\ HasWeekdayName) =>
              LocalDay(FedBack[1]) = LocalDay(Returned) + 7
        /\ IsAnchored => FedBack = result

(***************************************************************************)
(* C25.  In every reachable state of the provider, whatever was hydrated   *)
(* and whichever store operations were called, the history of each         *)
(* employer of the state is ordered by non-decreasing date.                *)
(***************************************************************************)
IsOrderedByDate(h) == \A k \in 1 .. (Len(h) - 1) : h[k].date <= h[k + 1].date

C25_HistoryOrdered ==
    \A i \in DOMAIN employers : IsOrderedByDate(employers[i].history)

\* after hydration and two operations: the entry of date 1 that was passed to
\* addPayday or upsertPayday stands before an entry of date 2
C25_Witness ==
    /\ hydrate = "done"
    /\ ops = MaxOps
    /\ \E i \in DOMAIN employers :
          \E k \in 1 .. (Len(employers[i].history) - 1) :
             /\ employers[i].history[k] = deriveTotalsFromBreakdown(EntryWithOwnNet)
             /\ employers[i].history[k + 1].date = 2

(***************************************************************************)
(* C26.  A call of upsertPayday(employerId, entry) leaves every employer   *)
(* with that id with exactly one entry of the date of entry, the           *)
(* normalized entry, however many entries of that date the history had,    *)
(* and keeps the entries of the other dates; a call of addPayday without   *)
(* replaceIfSameDate makes the history one entry longer.                   *)
(***************************************************************************)
EntriesOfDate(h, date) == SelectSeq(h, LAMBDA p : p.date = date)

EntriesOfOtherDates(h, date) == SelectSeq(h, LAMBDA p : p.date # date)

C26_UpsertReplacesAddAppends ==
    [][\A id \in EmployerIds, entry \in Entries :
          /\ upsertPayday(id, entry) =>
                \A i \in DOMAIN employers :
                   employers[i].id = id =>
                      /\ EntriesOfDate(employers'[i].history, entry.date)
                            = <<deriveTotalsFromBreakdown(entry)>>
                      /\ EntriesOfOtherDates(employers'[i].history, entry.date)
                            = EntriesOfOtherDates(employers[i].history, entry.date)
          /\ addPayday(id, entry, FALSE) =>
                \A i \in DOMAIN employers :
                   employers[i].id = id =>
                      Len(employers'[i].history) = Len(employers[i].history) + 1
     ]_vars

\* the stored history had two entries of date 1; after one operation it has
\* one, the normalized entry that was passed, and the entry of date 2
C26_Witness ==
    /\ hydrate = "done"
    /\ ops = 1
    /\ initial = Some([employers |-> parseEmployers(StoredV3), isDefault |-> FALSE])
    /\ Len(EntriesOfDate(initial[1].employers[1].history, 1)) = 2
    /\ Len(employers) = 1
    /\ employers[1].history =
          <<deriveTotalsFromBreakdown(EntryItemWithoutAmount)>>
             \o EntriesOfOtherDates(initial[1].employers[1].history, 1)

(***************************************************************************)
(* C27.  A call of updateEmployer, addPayday, upsertPayday,                *)
(* deletePaydayByDate or setEmployerHistory for an employer id leaves      *)
(* every employer with another id as it is, at its place in a list of the  *)
(* same length; when no employer has the id, the list keeps its content.   *)
(***************************************************************************)
\* the step is a call of one of the five operations with the id
AddressedTo(id) ==
    \/ \E patch \in Patches : updateEmployer(id, patch)
    \/ \E entry \in Entries : addPayday(id, entry, FALSE)
    \/ \E entry \in Entries : upsertPayday(id, entry)
    \/ \E dateMs \in {1, 2} : deletePaydayByDate(id, dateMs)
    \/ \E nextHist \in Histories : setEmployerHistory(id, nextHist)

C27_OtherEmployersUntouched ==
    [][\A id \in EmployerIds :
          AddressedTo(id) =>
             /\ Len(employers') = Len(employers)
             /\ \A i \in DOMAIN employers :
                   /\ employers'[i].id = employers[i].id
                   /\ employers[i].id # id => employers'[i] = employers[i]
             /\ (\A i \in DOMAIN employers : employers[i].id # id) =>
                   employers' = employers
     ]_vars

\* the last two writes are of the second operation, the one before them is of
\* the first: it left employers "a" and "b", and the second operation changed
\* the history of "a" and nothing of "b"
C27_Witness ==
    /\ hydrate = "done"
    /\ ops = MaxOps
    /\ Len(writes) >= 3
    /\ writes[Len(writes)].item = stringify(employers)
    /\ LET before == JSONparse(writes[Len(writes) - 2].item)
           after  == JSONparse(writes[Len(writes)].item)
       IN  /\ Len(before) = 2
           /\ Len(after) = 2
           /\ before[1].id = "a"
           /\ before[2].id = "b"
           /\ after[1].history # before[1].history
           /\ after[1].schedule = before[1].schedule
           /\ after[2] = before[2]

(***************************************************************************)
(* C28.  As claimed: once hydration has completed, after any sequence of   *)
(* store operations, when no write is in flight and no write was rejected, *)
(* the item under the v3 key is the serialization of the employers of the  *)
(* state.                                                                  *)
(***************************************************************************)
\* hydration is over, every setItem that was called has completed, none failed
Settled == hydrate = "done" /\ writes = <<>> /\ ~writeRejected

====
